---- MODULE Spec2Model ----
(***************************************************************************)
(* UniqysKit: the node coordinator (packages/chain-core/src/node.ts), the  *)
(* block types (packages/blockchain/src/block.ts) and their collaborators. *)
(*                                                                         *)
(* The node is a set of event handlers run by the JavaScript event loop:   *)
(* every handler runs to its next await without interleaving, so one       *)
(* action is one handler (or one segment of an async function between two  *)
(* awaits).  Calls the node makes into its collaborators are recorded in   *)
(* `calls`, in the order the handler makes them.                           *)
(***************************************************************************)
EXTENDS Integers, Sequences, FiniteSets, TLC

\* ---------------------------------------------------------------- bounds
MaxHeight == 1
NumTxs == 2
MaxInflight == 1
MaxRound == 1
MaxTimeoutRound == 3

\* ---------------------------------------------------------------- domains
Peers == {"p1", "p2"}
Listeners == {"l1", "l2"}
Heights == 0..MaxHeight
Txs == 1..NumTxs
NoPeer == "-"
LocalGenesis == "genesis_local"
GenesisHashes == {LocalGenesis, "genesis_foreign"}
SocketClosed == "underlying socket has been closed"
RemoteNodeDisappeared == "Remote node disappeared"
ErrorMessages == {SocketClosed, "fault"}

VARIABLES
  nodePc,       \* position of Node.start() / Node.stop()
  log,          \* component calls made by start() and stop(), in order
  listeners,    \* listeners registered with Node.onError
  proto,        \* per peer: state of its Protocol handle
  hs,           \* per peer: position of Node.handshake
  remoteNode,   \* RemoteNodeSet: peerId of each registered peer -> height of its RemoteNode
  onEnd,        \* per peer: protocol.onEnd listener registered by hello
  dropped,      \* peers network.dropPeer was called for
  handler,      \* the handler that ran last
  calls,        \* calls that handler made, in order
  adds,         \* transactionPool.add calls of newTransaction still pending
  pool,         \* TransactionPool contents
  updates,      \* transactionPool.update calls still pending
  executed,     \* transactions the executor reported executed
  executedHeight, \* height of the last onExecuted
  selected,     \* transactions last read from the pool by the engine
  block,        \* a Block under validation
  result,       \* outcome of Block.validate on it
  legacy,       \* a Block whose body carries nextValidatorSet
  legacyResult, \* outcome of that Block's validate on it
  bytes,        \* what serialize wrote
  decoded,      \* what deserialize read back
  args,         \* the arguments of Block.construct
  timeoutDefaults,  \* TimeoutOptions.defaults, the shared record
  timeoutSupplied,  \* the partial options given to new ConsensusTimeout
  timeoutOptions,   \* ConsensusTimeout.options
  timeout,          \* the last timeout computed
  networkDefaults,  \* NodeNetworkOptions.defaults, the shared record
  networkSupplied,  \* options.network given to new Node
  networkOptions,   \* Node.networkOptions
  executedListeners, \* listeners registered with Node.onExecuted
  cliPc,        \* position of the init command's handler
  argv,         \* the options of the init command
  files,        \* per data path: what the file system has there
  outFile,      \* the content of the output config file, if it exists
  dappFile,     \* the dapp config file
  config,       \* the handler's config
  dataDir,      \* the handler's dataDir
  cliLog        \* the file-system writes and commands of the handler, in order

vars == <<nodePc, log, listeners, proto, hs, remoteNode, onEnd, dropped,
          handler, calls, adds, pool, updates, executed, executedHeight,
          selected, block, result, legacy, legacyResult, bytes, decoded, args,
          timeoutDefaults, timeoutSupplied, timeoutOptions, timeout,
          networkDefaults, networkSupplied, networkOptions, executedListeners,
          cliPc, argv, files, outFile, dappFile, config, dataDir, cliLog>>

nodeVars == <<nodePc, log, listeners, proto, hs, remoteNode, onEnd, dropped, adds>>
poolVars == <<pool, updates, executed, executedHeight, selected>>
blockVars == <<block, result>>
legacyVars == <<legacy, legacyResult>>
serialVars == <<bytes, decoded>>
optionVars == <<timeoutDefaults, timeoutSupplied, timeoutOptions, timeout,
                networkDefaults, networkSupplied, networkOptions>>
cliVars == <<cliPc, argv, files, outFile, dappFile, config, dataDir, cliLog>>
restVars == <<blockVars, legacyVars, serialVars, args, optionVars, executedListeners, cliVars>>

\* ---------------------------------------------------------------- records
Call(to, op, peer, n, msg) == [to |-> to, op |-> op, peer |-> peer, n |-> n, msg |-> msg]
Handler(name, peer, n, msg) == [name |-> name, peer |-> peer, n |-> n, msg |-> msg]
NoHandler == Handler("none", NoPeer, -1, "")

\* EventEmitter.emit('error', err): every registered listener is called
RECURSIVE EmitTo(_, _)
EmitTo(ls, msg) ==
  IF ls = {} THEN <<>>
  ELSE LET l == CHOOSE x \in ls : TRUE
       IN <<Call("listener", "error", l, -1, msg)>> \o EmitTo(ls \ {l}, msg)

emitError(msg) == EmitTo(listeners, msg)

\* RemoteNodeSet
RemoteNodeSetAdd(set, p, h) == [q \in DOMAIN set \cup {p} |-> IF q = p THEN h ELSE set[q]]
RemoteNodeSetDelete(set, p) == [q \in DOMAIN set \ {p} |-> set[q]]
RemoteNodeSetHas(set, p) == p \in DOMAIN set
RemoteNodeSetNodes(set) == DOMAIN set

NetworkUp == nodePc \in {"network_wait", "running", "stop_network_wait"}

\* ---------------------------------------------------------------- Node.start
start ==
  /\ nodePc = "new"
  /\ nodePc' = "ready_wait"
  /\ log' = Append(log, "blockchain.ready")
  /\ handler' = Handler("start", NoPeer, -1, "")
  /\ calls' = <<>>
  /\ UNCHANGED <<listeners, proto, hs, remoteNode, onEnd, dropped, adds>>
  /\ UNCHANGED poolVars /\ UNCHANGED restVars

blockchainReady ==
  /\ nodePc = "ready_wait"
  /\ nodePc' = "initialize_wait"
  /\ log' = Append(log, "executor.initialize")
  /\ handler' = Handler("initialize", NoPeer, -1, "")
  /\ calls' = <<>>
  /\ UNCHANGED <<listeners, proto, hs, remoteNode, onEnd, dropped, adds>>
  /\ UNCHANGED poolVars /\ UNCHANGED restVars

\* the second segment of start() starting the synchronizer before the executor
executorInitializedSynchronizerFirst ==
  /\ nodePc = "initialize_wait"
  /\ nodePc' = "engine_wait"
  /\ log' = log \o <<"synchronizer.start", "executor.start", "consensusEngine.start">>
  /\ handler' = Handler("start", NoPeer, -1, "")
  /\ calls' = <<>>
  /\ UNCHANGED <<listeners, proto, hs, remoteNode, onEnd, dropped, adds>>
  /\ UNCHANGED poolVars /\ UNCHANGED restVars

\* initialize() resolved: executor.start(); synchronizer.start(); consensusEngine.start()
executorInitialized ==
  /\ nodePc = "initialize_wait"
  /\ nodePc' = "engine_wait"
  /\ log' = log \o <<"executor.start", "synchronizer.start", "consensusEngine.start">>
  /\ handler' = Handler("start", NoPeer, -1, "")
  /\ calls' = <<>>
  /\ UNCHANGED <<listeners, proto, hs, remoteNode, onEnd, dropped, adds>>
  /\ UNCHANGED poolVars /\ UNCHANGED restVars

consensusEngineStarted ==
  /\ nodePc = "engine_wait"
  /\ nodePc' = "network_wait"
  /\ log' = Append(log, "network.start")
  /\ handler' = Handler("start", NoPeer, -1, "")
  /\ calls' = <<>>
  /\ UNCHANGED <<listeners, proto, hs, remoteNode, onEnd, dropped, adds>>
  /\ UNCHANGED poolVars /\ UNCHANGED restVars

networkStarted ==
  /\ nodePc = "network_wait"
  /\ nodePc' = "running"
  /\ handler' = Handler("start", NoPeer, -1, "")
  /\ calls' = <<>>
  /\ UNCHANGED <<log, listeners, proto, hs, remoteNode, onEnd, dropped, adds>>
  /\ UNCHANGED poolVars /\ UNCHANGED restVars

\* ---------------------------------------------------------------- Node.stop
\* protocol.end() of every registered node, in one synchronous loop
RECURSIVE EndCalls(_)
EndCalls(ps) ==
  IF ps = {} THEN <<>>
  ELSE LET p == CHOOSE x \in ps : TRUE
       IN <<Call("protocol", "end", p, -1, "")>> \o EndCalls(ps \ {p})

stop ==
  /\ nodePc = "running"
  /\ nodePc' = "stop_network_wait"
  /\ LET nodes == RemoteNodeSetNodes(remoteNode)
     IN /\ proto' = [p \in Peers |-> IF p \in nodes /\ proto[p] = "open"
                                      THEN "ending" ELSE proto[p]]
        /\ calls' = EndCalls(nodes)
        /\ log' = log \o (IF nodes = {} THEN <<>> ELSE <<"protocol.end">>)
                      \o <<"network.stop">>
  /\ handler' = Handler("stop", NoPeer, -1, "")
  /\ UNCHANGED <<listeners, hs, remoteNode, onEnd, dropped, adds>>
  /\ UNCHANGED poolVars /\ UNCHANGED restVars

networkStopped ==
  /\ nodePc = "stop_network_wait"
  /\ nodePc' = "stop_engine_wait"
  /\ log' = Append(log, "consensusEngine.stop")
  /\ handler' = Handler("stop", NoPeer, -1, "")
  /\ calls' = <<>>
  /\ UNCHANGED <<listeners, proto, hs, remoteNode, onEnd, dropped, adds>>
  /\ UNCHANGED poolVars /\ UNCHANGED restVars

\* the last segment of stop() with its two calls exchanged
consensusEngineStoppedSwapped ==
  /\ nodePc = "stop_engine_wait"
  /\ nodePc' = "stopped"
  /\ log' = log \o <<"executor.stop", "synchronizer.stop">>
  /\ handler' = Handler("stop", NoPeer, -1, "")
  /\ calls' = <<>>
  /\ UNCHANGED <<listeners, proto, hs, remoteNode, onEnd, dropped, adds>>
  /\ UNCHANGED poolVars /\ UNCHANGED restVars

consensusEngineStopped ==
  /\ nodePc = "stop_engine_wait"
  /\ nodePc' = "stopped"
  /\ log' = log \o <<"synchronizer.stop", "executor.stop">>
  /\ handler' = Handler("stop", NoPeer, -1, "")
  /\ calls' = <<>>
  /\ UNCHANGED <<listeners, proto, hs, remoteNode, onEnd, dropped, adds>>
  /\ UNCHANGED poolVars /\ UNCHANGED restVars

\* ---------------------------------------------------------------- Node.onError
onError(l) ==
  /\ l \notin listeners
  /\ listeners' = listeners \cup {l}
  /\ handler' = Handler("onError", l, -1, "")
  /\ calls' = <<>>
  /\ UNCHANGED <<nodePc, log, proto, hs, remoteNode, onEnd, dropped, adds>>
  /\ UNCHANGED poolVars /\ UNCHANGED restVars

\* ---------------------------------------------------------------- helpers of Node
\* Node.dropPeer: network.dropPeer(PeerId.createFromB58String(id))
dropPeer(p) == <<Call("network", "dropPeer", p, -1, "")>>

\* addRemoteNode without the notification of the synchronizer
addRemoteNodeSilent(p, h) == <<Call("remoteNode", "add", p, h, "")>>

\* Node.addRemoteNode: remoteNode.add(node); synchronizer.newNode()
addRemoteNode(p, h) ==
  <<Call("remoteNode", "add", p, h, ""), Call("synchronizer", "newNode", NoPeer, -1, "")>>

\* the call made without looking the peer up
withRemoteNodeUnchecked(p, call) == <<call>>

\* Node.getRemoteNode followed by the call the handler makes with the node
withRemoteNode(p, call) ==
  IF ~RemoteNodeSetHas(remoteNode, p)
  THEN <<Call("throw", "Error", p, -1, RemoteNodeDisappeared)>>
  ELSE <<call>>

\* a message of peer p can be dispatched: its protocol was started by the
\* handshake and has not ended, and the network is up
Receiving(p) == NetworkUp /\ proto[p] = "open" /\ hs[p] # "idle"

\* ---------------------------------------------------------------- Node.handshake
\* up to the first await: protocol.onError, protocol.start, blockchain.height
handshake(p) ==
  /\ NetworkUp
  /\ proto[p] = "none" /\ hs[p] = "idle"
  /\ proto' = [proto EXCEPT ![p] = "open"]
  /\ hs' = [hs EXCEPT ![p] = "height_wait"]
  /\ handler' = Handler("handshake", p, -1, "")
  /\ calls' = <<Call("protocol", "onError", p, -1, ""), Call("protocol", "start", p, -1, ""),
                Call("blockchain", "height", NoPeer, -1, "")>>
  /\ UNCHANGED <<nodePc, log, listeners, remoteNode, onEnd, dropped, adds>>
  /\ UNCHANGED poolVars /\ UNCHANGED restVars

\* blockchain.height resolved: protocol.sendHello(new Message.Hello(height, genesisBlock.hash))
handshakeSendHello(p) ==
  /\ hs[p] = "height_wait"
  /\ hs' = [hs EXCEPT ![p] = "hello_wait"]
  /\ handler' = Handler("handshake", p, -1, "")
  /\ calls' = <<Call("protocol", "sendHello", p, -1, LocalGenesis)>>
  /\ UNCHANGED <<nodePc, log, listeners, proto, remoteNode, onEnd, dropped, adds>>
  /\ UNCHANGED poolVars /\ UNCHANGED restVars

\* sendHello resolved: setTimeout(..., networkOptions.handshakeTimeout)
handshakeSetTimeout(p) ==
  /\ hs[p] = "hello_wait"
  /\ hs' = [hs EXCEPT ![p] = "armed"]
  /\ handler' = Handler("handshake", p, -1, "")
  /\ calls' = <<Call("timer", "setTimeout", p, -1, "")>>
  /\ UNCHANGED <<nodePc, log, listeners, proto, remoteNode, onEnd, dropped, adds>>
  /\ UNCHANGED poolVars /\ UNCHANGED restVars

\* one of the two awaited promises rejects: the async function ends there,
\* before setTimeout
handshakeRejected(p) ==
  /\ hs[p] \in {"height_wait", "hello_wait"}
  /\ hs' = [hs EXCEPT ![p] = "rejected"]
  /\ handler' = Handler("handshakeRejected", p, -1, "")
  /\ calls' = <<>>
  /\ UNCHANGED <<nodePc, log, listeners, proto, remoteNode, onEnd, dropped, adds>>
  /\ UNCHANGED poolVars /\ UNCHANGED restVars

\* the setTimeout callback without its test of the remote-node set
handshakeTimeoutAlways(p) ==
  /\ hs[p] = "armed"
  /\ hs' = [hs EXCEPT ![p] = "fired"]
  /\ handler' = Handler("handshakeTimeout", p, -1, "")
  /\ calls' = dropPeer(p) /\ dropped' = dropped \cup {p}
  /\ UNCHANGED <<nodePc, log, listeners, proto, remoteNode, onEnd, adds>>
  /\ UNCHANGED poolVars /\ UNCHANGED restVars

\* the setTimeout callback
handshakeTimeout(p) ==
  /\ hs[p] = "armed"
  /\ hs' = [hs EXCEPT ![p] = "fired"]
  /\ handler' = Handler("handshakeTimeout", p, -1, "")
  /\ IF ~RemoteNodeSetHas(remoteNode, p)
     THEN calls' = dropPeer(p) /\ dropped' = dropped \cup {p}
     ELSE calls' = <<>> /\ dropped' = dropped
  /\ UNCHANGED <<nodePc, log, listeners, proto, remoteNode, onEnd, adds>>
  /\ UNCHANGED poolVars /\ UNCHANGED restVars

\* hello registering the peer before it looks at the genesis hash
helloAnyGenesis(p, h, g) ==
  /\ Receiving(p)
  /\ handler' = Handler("hello", p, h, g)
  /\ remoteNode' = RemoteNodeSetAdd(remoteNode, p, h)
  /\ IF g = LocalGenesis
     THEN /\ calls' = addRemoteNode(p, h) \o <<Call("protocol", "onEnd", p, -1, "")>>
          /\ onEnd' = [onEnd EXCEPT ![p] = TRUE]
          /\ dropped' = dropped
     ELSE /\ calls' = dropPeer(p)
          /\ dropped' = dropped \cup {p}
          /\ UNCHANGED onEnd
  /\ UNCHANGED <<nodePc, log, listeners, proto, hs, adds>>
  /\ UNCHANGED poolVars /\ UNCHANGED restVars

\* ---------------------------------------------------------------- Node.hello
hello(p, h, g) ==
  /\ Receiving(p)
  /\ handler' = Handler("hello", p, h, g)
  /\ IF g = LocalGenesis
     THEN /\ remoteNode' = RemoteNodeSetAdd(remoteNode, p, h)
          /\ calls' = addRemoteNode(p, h) \o <<Call("protocol", "onEnd", p, -1, "")>>
          /\ onEnd' = [onEnd EXCEPT ![p] = TRUE]
          /\ dropped' = dropped
     ELSE /\ calls' = dropPeer(p)
          /\ dropped' = dropped \cup {p}
          /\ UNCHANGED <<remoteNode, onEnd>>
  /\ UNCHANGED <<nodePc, log, listeners, proto, hs, adds>>
  /\ UNCHANGED poolVars /\ UNCHANGED restVars

\* the protocol's end event with listeners that leave the node in the set
protocolEndKeeps(p) ==
  /\ proto[p] \in {"open", "ending"}
  /\ proto' = [proto EXCEPT ![p] = "closed"]
  /\ handler' = Handler("protocolEnd", p, -1, "")
  /\ calls' = <<>>
  /\ UNCHANGED <<nodePc, log, listeners, hs, remoteNode, onEnd, dropped, adds>>
  /\ UNCHANGED poolVars /\ UNCHANGED restVars

\* the protocol's end event: the listeners hello registered delete the node
protocolEnd(p) ==
  /\ proto[p] \in {"open", "ending"}
  /\ proto' = [proto EXCEPT ![p] = "closed"]
  /\ handler' = Handler("protocolEnd", p, -1, "")
  /\ IF onEnd[p]
     THEN /\ remoteNode' = RemoteNodeSetDelete(remoteNode, p)
          /\ calls' = <<Call("remoteNode", "delete", p, -1, "")>>
     ELSE /\ remoteNode' = remoteNode
          /\ calls' = <<>>
  /\ UNCHANGED <<nodePc, log, listeners, hs, onEnd, dropped, adds>>
  /\ UNCHANGED poolVars /\ UNCHANGED restVars

\* Node.dropRemoteNode, the callback handed to the Synchronizer
dropRemoteNode(p) ==
  /\ nodePc \notin {"new", "stopped"}
  /\ RemoteNodeSetHas(remoteNode, p)
  /\ remoteNode' = RemoteNodeSetDelete(remoteNode, p)
  /\ dropped' = dropped \cup {p}
  /\ handler' = Handler("dropRemoteNode", p, -1, "")
  /\ calls' = <<Call("remoteNode", "delete", p, -1, "")>> \o dropPeer(p)
  /\ UNCHANGED <<nodePc, log, listeners, proto, hs, onEnd, adds>>
  /\ UNCHANGED poolVars /\ UNCHANGED restVars

\* ---------------------------------------------------------------- ProtocolMeta handlers
newTransaction(p, tx) ==
  /\ Receiving(p)
  /\ <<tx, "newTransaction", p>> \in adds \/ Cardinality(adds) < MaxInflight
  /\ adds' = adds \cup {<<tx, "newTransaction", p>>}
  /\ handler' = Handler("newTransaction", p, tx, "")
  /\ calls' = <<Call("transactionPool", "add", NoPeer, tx, "")>>
  /\ UNCHANGED <<nodePc, log, listeners, proto, hs, remoteNode, onEnd, dropped>>
  /\ UNCHANGED poolVars /\ UNCHANGED restVars

\* newBlock handing the message to the consensus engine as well
newBlockBoth(p) ==
  /\ Receiving(p)
  /\ handler' = Handler("newBlock", p, -1, "")
  /\ calls' = withRemoteNode(p, Call("synchronizer", "newBlock", p, -1, ""))
              \o <<Call("consensusEngine", "newConsensusMessage", p, -1, "")>>
  /\ UNCHANGED nodeVars /\ UNCHANGED poolVars /\ UNCHANGED restVars

newBlock(p) ==
  /\ Receiving(p)
  /\ handler' = Handler("newBlock", p, -1, "")
  /\ calls' = withRemoteNode(p, Call("synchronizer", "newBlock", p, -1, ""))
  /\ UNCHANGED nodeVars /\ UNCHANGED poolVars /\ UNCHANGED restVars

newBlockHeight(p, h) ==
  /\ Receiving(p)
  /\ handler' = Handler("newBlockHeight", p, h, "")
  /\ calls' = withRemoteNode(p, Call("synchronizer", "newBlockHeight", p, h, ""))
  /\ UNCHANGED nodeVars /\ UNCHANGED poolVars /\ UNCHANGED restVars

newConsensusMessage(p) ==
  /\ Receiving(p)
  /\ handler' = Handler("newConsensusMessage", p, -1, "")
  /\ calls' = withRemoteNode(p, Call("consensusEngine", "newConsensusMessage", p, -1, ""))
  /\ UNCHANGED nodeVars /\ UNCHANGED poolVars /\ UNCHANGED restVars

getConsentedHeader(p) ==
  /\ Receiving(p)
  /\ handler' = Handler("getConsentedHeader", p, -1, "")
  /\ calls' = <<Call("responder", "getConsentedHeader", p, -1, "")>>
  /\ UNCHANGED nodeVars /\ UNCHANGED poolVars /\ UNCHANGED restVars

getHeaders(p) ==
  /\ Receiving(p)
  /\ handler' = Handler("getHeaders", p, -1, "")
  /\ calls' = <<Call("responder", "getHeaders", p, -1, "")>>
  /\ UNCHANGED nodeVars /\ UNCHANGED poolVars /\ UNCHANGED restVars

getBodies(p) ==
  /\ Receiving(p)
  /\ handler' = Handler("getBodies", p, -1, "")
  /\ calls' = <<Call("responder", "getBodies", p, -1, "")>>
  /\ UNCHANGED nodeVars /\ UNCHANGED poolVars /\ UNCHANGED restVars

\* ---------------------------------------------------------------- error wiring
\* components whose listeners may run: constructed, and the node not yet stopped
Active == nodePc \notin {"new", "stopped"}

\* synchronizer.onError(err => this.event.emit('error', err))
synchronizerError(m) ==
  /\ Active
  /\ handler' = Handler("synchronizerError", NoPeer, -1, m)
  /\ calls' = emitError(m)
  /\ UNCHANGED nodeVars /\ UNCHANGED poolVars /\ UNCHANGED restVars

\* consensusEngine.onError(err => this.event.emit('error', err))
consensusEngineError(m) ==
  /\ Active
  /\ handler' = Handler("consensusEngineError", NoPeer, -1, m)
  /\ calls' = emitError(m)
  /\ UNCHANGED nodeVars /\ UNCHANGED poolVars /\ UNCHANGED restVars

\* network.onError: 'underlying socket has been closed' returns, others are emitted
networkError(m) ==
  /\ Active
  /\ handler' = Handler("networkError", NoPeer, -1, m)
  /\ calls' = IF m = SocketClosed THEN <<>> ELSE emitError(m)
  /\ UNCHANGED nodeVars /\ UNCHANGED poolVars /\ UNCHANGED restVars

\* protocol.onError without the filter
protocolErrorUnfiltered(p, m) ==
  /\ hs[p] # "idle" /\ proto[p] \in {"open", "ending"}
  /\ handler' = Handler("protocolError", p, -1, m)
  /\ calls' = emitError(m)
  /\ UNCHANGED nodeVars /\ UNCHANGED poolVars /\ UNCHANGED restVars

\* protocol.onError, registered by handshake: the same filter
protocolError(p, m) ==
  /\ hs[p] # "idle" /\ proto[p] \in {"open", "ending"}
  /\ handler' = Handler("protocolError", p, -1, m)
  /\ calls' = IF m = SocketClosed THEN <<>> ELSE emitError(m)
  /\ UNCHANGED nodeVars /\ UNCHANGED poolVars /\ UNCHANGED restVars

\* the executor raises an error: the constructor registers only
\* executor.onExecuted, no listener of the node hears it
executorError(m) ==
  /\ Active
  /\ handler' = Handler("executorError", NoPeer, -1, m)
  /\ calls' = <<>>
  /\ UNCHANGED nodeVars /\ UNCHANGED poolVars /\ UNCHANGED restVars

\* ---------------------------------------------------------------- transaction pool
\* Node.sendTransaction: await this.transactionPool.add(transaction)
sendTransaction(tx) ==
  /\ Active
  /\ <<tx, "sendTransaction", NoPeer>> \in adds \/ Cardinality(adds) < MaxInflight
  /\ adds' = adds \cup {<<tx, "sendTransaction", NoPeer>>}
  /\ handler' = Handler("sendTransaction", NoPeer, tx, "")
  /\ calls' = <<Call("transactionPool", "add", NoPeer, tx, "")>>
  /\ UNCHANGED <<nodePc, log, listeners, proto, hs, remoteNode, onEnd, dropped>>
  /\ UNCHANGED poolVars /\ UNCHANGED restVars

\* TransactionPool gossips an inserted transaction to the nodes of the
\* RemoteNodeSet it was constructed with, except the sender it was told of
RECURSIVE GossipTo(_, _)
GossipTo(ps, tx) ==
  IF ps = {} THEN <<>>
  ELSE LET q == CHOOSE x \in ps : TRUE
       IN <<Call("protocol", "sendNewTransaction", q, tx, "")>> \o GossipTo(ps \ {q}, tx)

propagateTransaction(tx, sender) == GossipTo(RemoteNodeSetNodes(remoteNode) \ {sender}, tx)

\* the sender transactionPool.add is told of: both callers pass the
\* transaction alone
AddSender(from, p) == NoPeer

\* TransactionPool.add resolves: a known transaction is dropped silently, a new
\* one is inserted and gossiped; the dapp does not validate a transaction
\* already executed.  p is the peer whose message made the call.
transactionPoolAdded(tx, from, p) ==
  /\ <<tx, from, p>> \in adds
  /\ tx \notin executed
  /\ adds' = adds \ {<<tx, from, p>>}
  /\ pool' = pool \cup {tx}
  /\ handler' = Handler("transactionPoolAdded", p, tx, from)
  /\ calls' = IF tx \in pool THEN <<>> ELSE propagateTransaction(tx, AddSender(from, p))
  /\ UNCHANGED <<nodePc, log, listeners, proto, hs, remoteNode, onEnd, dropped>>
  /\ UNCHANGED <<updates, executed, executedHeight, selected>> /\ UNCHANGED restVars

\* TransactionPool.add rejects: newTransaction's .catch emits the error,
\* sendTransaction's await hands it to the caller
transactionPoolAddRejected(tx, from, p, m) ==
  /\ <<tx, from, p>> \in adds
  /\ adds' = adds \ {<<tx, from, p>>}
  /\ handler' = Handler(IF from = "newTransaction" THEN "transactionPoolAddRejected"
                        ELSE "sendTransactionRejected", NoPeer, tx, m)
  /\ calls' = IF from = "newTransaction" THEN emitError(m)
              ELSE <<Call("caller", "reject", NoPeer, tx, m)>>
  /\ UNCHANGED <<nodePc, log, listeners, proto, hs, remoteNode, onEnd, dropped>>
  /\ UNCHANGED poolVars /\ UNCHANGED restVars

\* Node.onExecuted(listener): this.event.on('executed', listener)
nodeOnExecuted(l) ==
  /\ l \notin executedListeners
  /\ executedListeners' = executedListeners \cup {l}
  /\ handler' = Handler("nodeOnExecuted", l, -1, "")
  /\ calls' = <<>>
  /\ UNCHANGED nodeVars /\ UNCHANGED poolVars
  /\ UNCHANGED <<blockVars, legacyVars, serialVars, args, optionVars>> /\ UNCHANGED cliVars

\* executor.onExecuted((_height, txs) => { this.transactionPool.update(txs).catch(...) })
\* the only listener of the executor: nothing emits the node's 'executed' event
onExecuted(txs) ==
  /\ Active
  /\ executedHeight < MaxHeight
  /\ txs \in updates \/ Cardinality(updates) < MaxInflight
  /\ executedHeight' = executedHeight + 1
  /\ executed' = executed \cup txs
  /\ updates' = updates \cup {txs}
  /\ handler' = Handler("onExecuted", NoPeer, executedHeight + 1, "")
  /\ calls' = <<Call("transactionPool", "update", NoPeer, executedHeight + 1, "")>>
  /\ UNCHANGED nodeVars /\ UNCHANGED <<pool, selected>> /\ UNCHANGED restVars

\* TransactionPool.update resolves: the committed transactions are removed and
\* the rest revalidated, those the dapp no longer accepts evicted
transactionPoolUpdated(txs, evicted) ==
  /\ txs \in updates
  /\ evicted \subseteq pool \ txs
  /\ updates' = updates \ {txs}
  /\ pool' = (pool \ txs) \ evicted
  /\ handler' = Handler("transactionPoolUpdated", NoPeer, -1, "")
  /\ calls' = <<>>
  /\ UNCHANGED nodeVars /\ UNCHANGED <<executed, executedHeight, selected>> /\ UNCHANGED restVars

\* TransactionPool.update rejects, before or after the removal: .catch emits the error
transactionPoolUpdateRejected(txs, removed, m) ==
  /\ txs \in updates
  /\ updates' = updates \ {txs}
  /\ pool' = IF removed THEN pool \ txs ELSE pool
  /\ handler' = Handler("transactionPoolUpdateRejected", NoPeer, -1, m)
  /\ calls' = emitError(m)
  /\ UNCHANGED nodeVars /\ UNCHANGED <<executed, executedHeight, selected>> /\ UNCHANGED restVars

\* the consensus engine reads the pool for the proposal of the next height
selectTransactions(sel) ==
  /\ Active
  /\ sel \subseteq pool
  /\ selected' = sel
  /\ handler' = Handler("selectTransactions", NoPeer, executedHeight + 1, "")
  /\ calls' = <<>>
  /\ UNCHANGED nodeVars /\ UNCHANGED <<pool, updates, executed, executedHeight>> /\ UNCHANGED restVars

\* ---------------------------------------------------------------- blocks
\* Hash.fromData: a digest that tells apart any two values of the model
Hash(x) == <<"hash", x>>

\* TransactionList: the sequences of distinct transactions
RECURSIVE SeqsOf(_, _)
SeqsOf(S, n) ==
  IF n = 0 THEN {<<>>}
  ELSE LET shorter == SeqsOf(S, n - 1)
       IN shorter \cup {Append(q, x) : q \in {r \in shorter : Len(r) = n - 1},
                                       x \in S}
NoRepeat(q) == \A i, j \in 1..Len(q) : i # j => q[i] # q[j]
TransactionLists == {q \in SeqsOf(Txs, NumTxs) : NoRepeat(q)}
\* Consensus: the commit of the previous block, told apart by its round
Consensuses == [round : 0..MaxRound]

\* ---- @uniqys/serialize: BufferWriter appends, BufferReader reads at its position
UInt64Width == 8
HashWidth == 32
ByteBase == 256

NewReader(buf) == [buf |-> buf, pos |-> 0]

\* an unsigned integer as w bytes, most significant first
RECURSIVE UIntSerialize(_, _)
UIntSerialize(n, w) ==
  IF w = 0 THEN <<>> ELSE UIntSerialize(n \div ByteBase, w - 1) \o <<n % ByteBase>>

RECURSIVE UIntValue(_)
UIntValue(bs) ==
  IF bs = <<>> THEN 0
  ELSE UIntValue(SubSeq(bs, 1, Len(bs) - 1)) * ByteBase + bs[Len(bs)]

UInt64Serialize(n) == UIntSerialize(n, UInt64Width)
UInt64Deserialize(reader) ==
  [value |-> UIntValue(SubSeq(reader.buf, reader.pos + 1, reader.pos + UInt64Width)),
   reader |-> [reader EXCEPT !.pos = @ + UInt64Width]]

\* Hash.serialize writes the HashWidth bytes of the digest, Hash.deserialize
\* reads HashWidth bytes and wraps them; byte i of digest h is the cell (h, i)
HashSerialize(h) == [i \in 1..HashWidth |-> [hash |-> h, byte |-> i]]
HashDeserialize(reader) ==
  [value |-> reader.buf[reader.pos + 1].hash,
   reader |-> [reader EXCEPT !.pos = @ + HashWidth]]

\* BlockHeader.serialize
BlockHeaderSerialize(h) ==
  UInt64Serialize(h.height) \o UInt64Serialize(h.timestamp)
    \o HashSerialize(h.lastBlockHash) \o HashSerialize(h.transactionRoot)
    \o HashSerialize(h.lastBlockConsensusRoot) \o HashSerialize(h.nextValidatorSetRoot)
    \o HashSerialize(h.appStateHash)

\* new BlockHeader(...): the seven fields and hash = Hash.fromData(serialize(this))
BlockHeader(height, timestamp, lastBlockHash, transactionRoot, lastBlockConsensusRoot, nextValidatorSetRoot, appStateHash) ==
  LET fields == [height |-> height, timestamp |-> timestamp, lastBlockHash |-> lastBlockHash,
                 transactionRoot |-> transactionRoot,
                 lastBlockConsensusRoot |-> lastBlockConsensusRoot,
                 nextValidatorSetRoot |-> nextValidatorSetRoot, appStateHash |-> appStateHash]
  IN [height |-> height, timestamp |-> timestamp, lastBlockHash |-> lastBlockHash,
      transactionRoot |-> transactionRoot, lastBlockConsensusRoot |-> lastBlockConsensusRoot,
      nextValidatorSetRoot |-> nextValidatorSetRoot, appStateHash |-> appStateHash,
      hash |-> Hash(BlockHeaderSerialize(fields))]

\* BlockHeader.deserialize with the first two reads exchanged
BlockHeaderDeserializeTimestampFirst(reader) ==
  LET timestamp == UInt64Deserialize(reader)
      height == UInt64Deserialize(timestamp.reader)
      lastBlockHash == HashDeserialize(height.reader)
      transactionRoot == HashDeserialize(lastBlockHash.reader)
      lastBlockConsensusRoot == HashDeserialize(transactionRoot.reader)
      nextValidatorSetRoot == HashDeserialize(lastBlockConsensusRoot.reader)
      appStateHash == HashDeserialize(nextValidatorSetRoot.reader)
  IN [value |-> BlockHeader(height.value, timestamp.value, lastBlockHash.value,
                            transactionRoot.value, lastBlockConsensusRoot.value,
                            nextValidatorSetRoot.value, appStateHash.value),
      reader |-> appStateHash.reader]

\* BlockHeader.deserialize
BlockHeaderDeserialize(reader) ==
  LET height == UInt64Deserialize(reader)
      timestamp == UInt64Deserialize(height.reader)
      lastBlockHash == HashDeserialize(timestamp.reader)
      transactionRoot == HashDeserialize(lastBlockHash.reader)
      lastBlockConsensusRoot == HashDeserialize(transactionRoot.reader)
      nextValidatorSetRoot == HashDeserialize(lastBlockConsensusRoot.reader)
      appStateHash == HashDeserialize(nextValidatorSetRoot.reader)
  IN [value |-> BlockHeader(height.value, timestamp.value, lastBlockHash.value,
                            transactionRoot.value, lastBlockConsensusRoot.value,
                            nextValidatorSetRoot.value, appStateHash.value),
      reader |-> appStateHash.reader]

\* TransactionList.serialize / deserialize: the count, then each transaction
RECURSIVE TransactionsSerialize(_)
TransactionsSerialize(q) ==
  IF q = <<>> THEN <<>> ELSE UInt64Serialize(Head(q)) \o TransactionsSerialize(Tail(q))
TransactionListSerialize(q) == UInt64Serialize(Len(q)) \o TransactionsSerialize(q)

RECURSIVE TransactionsDeserialize(_, _)
TransactionsDeserialize(reader, n) ==
  IF n = 0 THEN [value |-> <<>>, reader |-> reader]
  ELSE LET tx == UInt64Deserialize(reader)
           rest == TransactionsDeserialize(tx.reader, n - 1)
       IN [value |-> <<tx.value>> \o rest.value, reader |-> rest.reader]
TransactionListDeserialize(reader) ==
  LET count == UInt64Deserialize(reader)
  IN TransactionsDeserialize(count.reader, count.value)

\* Consensus.serialize / deserialize
ConsensusSerialize(c) == UInt64Serialize(c.round)
ConsensusDeserialize(reader) ==
  LET round == UInt64Deserialize(reader)
  IN [value |-> [round |-> round.value], reader |-> round.reader]

BlockBody(transactionList, lastBlockConsensus) ==
  [transactionList |-> transactionList, lastBlockConsensus |-> lastBlockConsensus]

\* BlockBody.serialize / deserialize
BlockBodySerialize(body) ==
  TransactionListSerialize(body.transactionList) \o ConsensusSerialize(body.lastBlockConsensus)
BlockBodyDeserialize(reader) ==
  LET transactions == TransactionListDeserialize(reader)
      consensus == ConsensusDeserialize(transactions.reader)
  IN [value |-> BlockBody(transactions.value, consensus.value), reader |-> consensus.reader]

\* new Block(header, body): this.hash = header.hash
Block(header, body) == [header |-> header, body |-> body, hash |-> header.hash]

\* Block.serialize / deserialize
BlockSerialize(b) == BlockHeaderSerialize(b.header) \o BlockBodySerialize(b.body)
BlockDeserialize(reader) ==
  LET header == BlockHeaderDeserialize(reader)
      body == BlockBodyDeserialize(header.reader)
  IN [value |-> Block(header.value, body.value), reader |-> body.reader]

\* Block.construct taking the transaction root of an empty list
BlockConstructEmptyRoot(height, timestamp, lastBlockHash, nextValidatorSet, appStateHash, transactions, lastBlockConsensus) ==
  LET body == BlockBody(transactions, lastBlockConsensus)
      header == BlockHeader(height, timestamp, lastBlockHash,
                            Hash(<<>>), Hash(body.lastBlockConsensus),
                            nextValidatorSet, appStateHash)
  IN Block(header, body)

\* Block.construct
BlockConstruct(height, timestamp, lastBlockHash, nextValidatorSet, appStateHash, transactions, lastBlockConsensus) ==
  LET body == BlockBody(transactions, lastBlockConsensus)
      header == BlockHeader(height, timestamp, lastBlockHash,
                            Hash(body.transactionList), Hash(body.lastBlockConsensus),
                            nextValidatorSet, appStateHash)
  IN Block(header, body)

\* BlockBody.validate without its second test
BlockBodyValidateTransactionsOnly(body, header) ==
  IF header.transactionRoot # Hash(body.transactionList)
  THEN "invalid transactionRoot"
  ELSE "ok"

\* BlockBody.validate(header): the error thrown, or "ok"
BlockBodyValidate(body, header) ==
  IF header.transactionRoot # Hash(body.transactionList)
  THEN "invalid transactionRoot"
  ELSE IF header.lastBlockConsensusRoot # Hash(body.lastBlockConsensus)
  THEN "invalid lastBlockConsensusHash"
  ELSE "ok"

\* Block.validate(): this.body.validate(this.header)
BlockValidate(b) == BlockBodyValidate(b.body, b.header)

\* the blocks a peer can send: any header over any body
Blocks ==
  {Block(BlockHeader(1, 0, Hash("genesis"), tr, cr, Hash("validators"), Hash("state")),
         BlockBody(tl, c)) :
     tr \in {Hash(q) : q \in TransactionLists}, cr \in {Hash(c) : c \in Consensuses},
     tl \in TransactionLists, c \in Consensuses}

\* the value of a variable that holds no block: a header of no bytes over an
\* empty body
NoHeader ==
  [height |-> 0, timestamp |-> 0, lastBlockHash |-> Hash("none"),
   transactionRoot |-> Hash(<<>>), lastBlockConsensusRoot |-> Hash([round |-> 0]),
   nextValidatorSetRoot |-> Hash("validators"), appStateHash |-> Hash("state"),
   hash |-> Hash(<<>>)]
NoBlock == Block(NoHeader, BlockBody(<<>>, [round |-> 0]))

validate ==
  /\ result = "none"
  /\ result' = BlockValidate(block)
  /\ handler' = Handler("validate", NoPeer, -1, "")
  /\ UNCHANGED <<block, calls>>
  /\ UNCHANGED nodeVars /\ UNCHANGED poolVars
  /\ UNCHANGED <<legacyVars, serialVars, args, optionVars, executedListeners>> /\ UNCHANGED cliVars

\* ---------------------------------------------------------------- blocks whose body carries nextValidatorSet
\* ValidatorSet: told apart by its members
ValidatorSets == {{"v1"}, {"v1", "v2"}}

LegacyBlockBody(transactionList, lastBlockConsensus, nextValidatorSet) ==
  [transactionList |-> transactionList, lastBlockConsensus |-> lastBlockConsensus,
   nextValidatorSet |-> nextValidatorSet]

LegacyBlock(header, body) == [header |-> header, body |-> body, hash |-> header.hash]

\* Block.construct of that version: all three roots are taken from the body
LegacyBlockConstruct(height, timestamp, lastBlockHash, appStateHash, transactions, lastBlockConsensus, nextValidatorSet) ==
  LET body == LegacyBlockBody(transactions, lastBlockConsensus, nextValidatorSet)
      header == BlockHeader(height, timestamp, lastBlockHash,
                            Hash(body.transactionList), Hash(body.lastBlockConsensus),
                            Hash(body.nextValidatorSet), appStateHash)
  IN LegacyBlock(header, body)

\* Block.validate of that version without its third test
LegacyBlockValidateTwoRoots(b) ==
  IF b.header.transactionRoot # Hash(b.body.transactionList)
  THEN "invalid transactionRoot"
  ELSE IF b.header.lastBlockConsensusRoot # Hash(b.body.lastBlockConsensus)
  THEN "invalid lastBlockConsensusHash"
  ELSE "ok"

\* Block.validate of that version: the error thrown, or "ok"
LegacyBlockValidate(b) ==
  IF b.header.transactionRoot # Hash(b.body.transactionList)
  THEN "invalid transactionRoot"
  ELSE IF b.header.lastBlockConsensusRoot # Hash(b.body.lastBlockConsensus)
  THEN "invalid lastBlockConsensusHash"
  ELSE IF b.header.nextValidatorSetRoot # Hash(b.body.nextValidatorSet)
  THEN "invalid nextValidatorSetRoot"
  ELSE "ok"

\* the blocks a peer can send: any header over any body
LegacyBlocks ==
  {LegacyBlock(BlockHeader(1, 0, Hash("genesis"), tr, cr, nr, Hash("state")),
               LegacyBlockBody(tl, c, v)) :
     tr \in {Hash(q) : q \in TransactionLists}, cr \in {Hash(c) : c \in Consensuses},
     nr \in {Hash(v) : v \in ValidatorSets},
     tl \in TransactionLists, c \in Consensuses, v \in ValidatorSets}

NoLegacyBlock ==
  LegacyBlock([NoHeader EXCEPT !.nextValidatorSetRoot = Hash({"v1"})],
              LegacyBlockBody(<<>>, [round |-> 0], {"v1"}))

legacyValidate ==
  /\ legacyResult = "none"
  /\ legacyResult' = LegacyBlockValidate(legacy)
  /\ handler' = Handler("legacyValidate", NoPeer, -1, "")
  /\ UNCHANGED <<legacy, calls>>
  /\ UNCHANGED nodeVars /\ UNCHANGED poolVars
  /\ UNCHANGED <<blockVars, serialVars, args, optionVars, executedListeners>> /\ UNCHANGED cliVars

\* ---------------------------------------------------------------- Block.construct
\* the arguments a caller has: the fields of the header that are given, and
\* the parts of the body
ConstructArgs ==
  [height : Heights, timestamp : {0, 300}, lastBlockHash : {Hash("genesis"), Hash("parent")},
   appStateHash : {Hash("state"), Hash("other state")},
   transactions : TransactionLists, lastBlockConsensus : Consensuses,
   nextValidatorSet : ValidatorSets]

NoArgs ==
  [height |-> 0, timestamp |-> 0, lastBlockHash |-> Hash("none"), appStateHash |-> Hash("state"),
   transactions |-> <<>>, lastBlockConsensus |-> [round |-> 0], nextValidatorSet |-> {"v1"}]

\* Block.construct(...), the caller giving the hash of the next validator set
construct ==
  /\ handler.name = "none"
  /\ block' = BlockConstruct(args.height, args.timestamp, args.lastBlockHash,
                             Hash(args.nextValidatorSet), args.appStateHash,
                             args.transactions, args.lastBlockConsensus)
  /\ handler' = Handler("construct", NoPeer, -1, "")
  /\ UNCHANGED <<result, calls>>
  /\ UNCHANGED nodeVars /\ UNCHANGED poolVars
  /\ UNCHANGED <<legacyVars, serialVars, args, optionVars, executedListeners>> /\ UNCHANGED cliVars

\* Block.construct(...) of the version whose body carries the validator set
legacyConstruct ==
  /\ handler.name \in {"construct", "validate"}
  /\ legacyResult = "none"
  /\ legacy' = LegacyBlockConstruct(args.height, args.timestamp, args.lastBlockHash,
                                    args.appStateHash, args.transactions,
                                    args.lastBlockConsensus, args.nextValidatorSet)
  /\ handler' = Handler("legacyConstruct", NoPeer, -1, "")
  /\ UNCHANGED <<legacyResult, calls>>
  /\ UNCHANGED nodeVars /\ UNCHANGED poolVars
  /\ UNCHANGED <<blockVars, serialVars, args, optionVars, executedListeners>> /\ UNCHANGED cliVars

\* ---------------------------------------------------------------- serialize / deserialize
serialize ==
  /\ Len(bytes) = 0
  /\ bytes' = BlockSerialize(block)
  /\ handler' = Handler("serialize", NoPeer, -1, "")
  /\ UNCHANGED <<decoded, calls>>
  /\ UNCHANGED nodeVars /\ UNCHANGED poolVars
  /\ UNCHANGED <<blockVars, legacyVars, args, optionVars, executedListeners>> /\ UNCHANGED cliVars

deserialize ==
  /\ handler.name = "serialize"
  /\ decoded' = BlockDeserialize(NewReader(bytes)).value
  /\ handler' = Handler("deserialize", NoPeer, BlockDeserialize(NewReader(bytes)).reader.pos, "")
  /\ UNCHANGED <<bytes, calls>>
  /\ UNCHANGED nodeVars /\ UNCHANGED poolVars
  /\ UNCHANGED <<blockVars, legacyVars, args, optionVars, executedListeners>> /\ UNCHANGED cliVars

\* block.header.serialize(writer)
serializeHeader ==
  /\ Len(bytes) = 0
  /\ bytes' = BlockHeaderSerialize(block.header)
  /\ handler' = Handler("serializeHeader", NoPeer, -1, "")
  /\ UNCHANGED <<decoded, calls>>
  /\ UNCHANGED nodeVars /\ UNCHANGED poolVars
  /\ UNCHANGED <<blockVars, legacyVars, args, optionVars, executedListeners>> /\ UNCHANGED cliVars

\* BlockHeader.deserialize(reader)
deserializeHeader ==
  /\ handler.name = "serializeHeader"
  /\ decoded' = BlockHeaderDeserialize(NewReader(bytes)).value
  /\ handler' = Handler("deserializeHeader", NoPeer,
                        BlockHeaderDeserialize(NewReader(bytes)).reader.pos, "")
  /\ UNCHANGED <<bytes, calls>>
  /\ UNCHANGED nodeVars /\ UNCHANGED poolVars
  /\ UNCHANGED <<blockVars, legacyVars, args, optionVars, executedListeners>> /\ UNCHANGED cliVars

\* the blocks that are written: every field of the header takes two values
SerialBlocks ==
  {Block(BlockHeader(h, t, lb, tr, cr, nr, as), BlockBody(tl, c)) :
     h \in Heights, t \in {0, 300}, lb \in {Hash("genesis"), Hash("parent")},
     tr \in {Hash(<<>>), Hash(<<1>>)}, cr \in {Hash(c) : c \in Consensuses},
     nr \in {Hash(v) : v \in ValidatorSets}, as \in {Hash("state"), Hash("other state")},
     tl \in TransactionLists, c \in Consensuses}

\* ---------------------------------------------------------------- numbers
\* a JavaScript number as the exact fraction num / den in lowest terms
RECURSIVE GCD(_, _)
GCD(a, b) == IF b = 0 THEN a ELSE GCD(b, a % b)
Rat(n, d) == [num |-> n \div GCD(n, d), den |-> d \div GCD(n, d)]
RatMul(a, b) == Rat(a.num * b.num, a.den * b.den)
RatLess(a, b) == a.num * b.den < b.num * a.den
\* Math.pow(base, exponent) for an exponent that is a natural number
RECURSIVE MathPow(_, _)
MathPow(base, exponent) ==
  IF exponent = 0 THEN Rat(1, 1) ELSE RatMul(base, MathPow(base, exponent - 1))

\* ---------------------------------------------------------------- options
\* Object.assign(target, source): every own property of source is written to target
ObjectAssign(target, source) ==
  [k \in DOMAIN target \cup DOMAIN source |->
     IF k \in DOMAIN source THEN source[k] ELSE target[k]]
\* {}
EmptyObject == [k \in {} |-> 0]

\* TimeoutOptions.defaults
TimeoutOptionsDefaults ==
  [proposeTimeout |-> Rat(3000, 1), proposeTimeoutIncreaseRate |-> Rat(12, 10),
   prevoteTimeout |-> Rat(1000, 1), prevoteTimeoutIncreaseRate |-> Rat(12, 10),
   precommitTimeout |-> Rat(1000, 1), precommitTimeoutIncreaseRate |-> Rat(12, 10)]

TimeoutFields == DOMAIN TimeoutOptionsDefaults
\* a value a caller supplies for a field, different from its default
TimeoutValue(k) ==
  IF k \in {"proposeTimeout", "prevoteTimeout", "precommitTimeout"}
  THEN Rat(2000, 1) ELSE Rat(15, 10)
\* Partial<TimeoutOptions>
PartialTimeoutOptions == {[k \in S |-> TimeoutValue(k)] : S \in SUBSET TimeoutFields}

\* new ConsensusTimeout(options) merging into the defaults record itself
newConsensusTimeoutShared(options) ==
  /\ timeoutSupplied' = options
  /\ timeoutDefaults' = ObjectAssign(timeoutDefaults, options)
  /\ timeoutOptions' = ObjectAssign(timeoutDefaults, options)
  /\ handler' = Handler("newConsensusTimeout", NoPeer, -1, "")
  /\ UNCHANGED <<timeout, networkDefaults, networkSupplied, networkOptions, calls>>
  /\ UNCHANGED nodeVars /\ UNCHANGED poolVars
  /\ UNCHANGED <<blockVars, legacyVars, serialVars, args, executedListeners>> /\ UNCHANGED cliVars

\* new ConsensusTimeout(options): Object.assign({}, TimeoutOptions.defaults, options)
newConsensusTimeout(options) ==
  /\ timeoutSupplied' = options
  /\ timeoutOptions' = ObjectAssign(ObjectAssign(EmptyObject, timeoutDefaults), options)
  /\ handler' = Handler("newConsensusTimeout", NoPeer, -1, "")
  /\ UNCHANGED <<timeoutDefaults, timeout, networkDefaults, networkSupplied, networkOptions, calls>>
  /\ UNCHANGED nodeVars /\ UNCHANGED poolVars
  /\ UNCHANGED <<blockVars, legacyVars, serialVars, args, executedListeners>> /\ UNCHANGED cliVars

\* NetworkOptions.defaults of @uniqys/p2p-network: fields other than handshakeTimeout
NetworkOptionsDefaults == [port |-> 5665, address |-> "0.0.0.0"]
\* NodeNetworkOptions.defaults
NodeNetworkOptionsDefaults == ObjectAssign([handshakeTimeout |-> 1000], NetworkOptionsDefaults)
\* NodeOptions.defaults
NodeOptionsDefaults ==
  [network |-> EmptyObject, synchronizer |-> EmptyObject,
   transactionPool |-> EmptyObject, consensus |-> EmptyObject]

NetworkFields == DOMAIN NodeNetworkOptionsDefaults
NetworkValue(k) ==
  IF k = "handshakeTimeout" THEN 5000 ELSE IF k = "port" THEN 8080 ELSE "127.0.0.1"
\* Partial<NodeNetworkOptions>
PartialNetworkOptions == {[k \in S |-> NetworkValue(k)] : S \in SUBSET NetworkFields}

\* new Node(...) merging options.network into the defaults record itself
newNodeShared(options) ==
  LET nodeOptions == ObjectAssign(ObjectAssign(EmptyObject, NodeOptionsDefaults), options)
  IN /\ networkSupplied' = nodeOptions.network
     /\ networkDefaults' = ObjectAssign(networkDefaults, nodeOptions.network)
     /\ networkOptions' = ObjectAssign(networkDefaults, nodeOptions.network)
     /\ handler' = Handler("newNode", NoPeer, -1, "")
     /\ UNCHANGED <<timeoutDefaults, timeoutSupplied, timeoutOptions, timeout, calls>>
     /\ UNCHANGED nodeVars /\ UNCHANGED poolVars
     /\ UNCHANGED <<blockVars, legacyVars, serialVars, args, executedListeners>> /\ UNCHANGED cliVars

\* new Node(dapp, blockchain, peerInfo, keyPair, options): the two merges
newNode(options) ==
  LET nodeOptions == ObjectAssign(ObjectAssign(EmptyObject, NodeOptionsDefaults), options)
  IN /\ networkSupplied' = nodeOptions.network
     /\ networkOptions' = ObjectAssign(ObjectAssign(EmptyObject, networkDefaults),
                                       nodeOptions.network)
     /\ handler' = Handler("newNode", NoPeer, -1, "")
     /\ UNCHANGED <<timeoutDefaults, timeoutSupplied, timeoutOptions, timeout,
                    networkDefaults, calls>>
     /\ UNCHANGED nodeVars /\ UNCHANGED poolVars
     /\ UNCHANGED <<blockVars, legacyVars, serialVars, args, executedListeners>> /\ UNCHANGED cliVars

\* ---------------------------------------------------------------- ConsensusTimeout
TimeoutRounds == 0..MaxTimeoutRound

ConsensusTimeoutPropose(options, round) ==
  RatMul(options.proposeTimeout, MathPow(options.proposeTimeoutIncreaseRate, round))

ConsensusTimeoutPrevote(options, round) ==
  RatMul(options.prevoteTimeout, MathPow(options.prevoteTimeoutIncreaseRate, round))

\* precommit computed from the propose base
ConsensusTimeoutPrecommitFromPropose(options, round) ==
  RatMul(options.proposeTimeout, MathPow(options.precommitTimeoutIncreaseRate, round))

ConsensusTimeoutPrecommit(options, round) ==
  RatMul(options.precommitTimeout, MathPow(options.precommitTimeoutIncreaseRate, round))

Timeout(kind, round, value) == [kind |-> kind, round |-> round, value |-> value]
NoTimeout == Timeout("none", 0, Rat(0, 1))

propose(round) ==
  /\ timeout' = Timeout("propose", round, ConsensusTimeoutPropose(timeoutOptions, round))
  /\ handler' = Handler("propose", NoPeer, round, "")
  /\ UNCHANGED <<timeoutDefaults, timeoutSupplied, timeoutOptions,
                 networkDefaults, networkSupplied, networkOptions, calls>>
  /\ UNCHANGED nodeVars /\ UNCHANGED poolVars
  /\ UNCHANGED <<blockVars, legacyVars, serialVars, args, executedListeners>> /\ UNCHANGED cliVars

prevote(round) ==
  /\ timeout' = Timeout("prevote", round, ConsensusTimeoutPrevote(timeoutOptions, round))
  /\ handler' = Handler("prevote", NoPeer, round, "")
  /\ UNCHANGED <<timeoutDefaults, timeoutSupplied, timeoutOptions,
                 networkDefaults, networkSupplied, networkOptions, calls>>
  /\ UNCHANGED nodeVars /\ UNCHANGED poolVars
  /\ UNCHANGED <<blockVars, legacyVars, serialVars, args, executedListeners>> /\ UNCHANGED cliVars

precommit(round) ==
  /\ timeout' = Timeout("precommit", round, ConsensusTimeoutPrecommit(timeoutOptions, round))
  /\ handler' = Handler("precommit", NoPeer, round, "")
  /\ UNCHANGED <<timeoutDefaults, timeoutSupplied, timeoutOptions,
                 networkDefaults, networkSupplied, networkOptions, calls>>
  /\ UNCHANGED nodeVars /\ UNCHANGED poolVars
  /\ UNCHANGED <<blockVars, legacyVars, serialVars, args, executedListeners>> /\ UNCHANGED cliVars

\* ---------------------------------------------------------------- the init command
\* a path as its segments below the root
Cwd == <<"cwd">>
\* path.join(process.cwd(), name)
PathJoin(dir, name) == Append(dir, name)
\* the number of leading segments two paths share
RECURSIVE CommonPrefix(_, _)
CommonPrefix(a, b) ==
  IF a = <<>> \/ b = <<>> \/ Head(a) # Head(b) THEN 0 ELSE 1 + CommonPrefix(Tail(a), Tail(b))
\* path.relative(from, to): the '..' steps up from `from`, then the segments down to `to`
PathRelative(from, to) ==
  [up |-> Len(from) - CommonPrefix(from, to),
   down |-> SubSeq(to, CommonPrefix(from, to) + 1, Len(to))]
\* path.resolve(from, rel)
PathResolve(from, rel) == SubSeq(from, 1, Len(from) - rel.up) \o rel.down

DataNames == {".data", "other"}
DataPaths == {PathJoin(Cwd, name) : name \in DataNames}
OutPath == PathJoin(Cwd, "uniqys.json")
DappPath == PathJoin(Cwd, "dapp.json")
\* what a data path holds: nothing, a file, an empty or a non-empty directory
FileStates == {"absent", "file", "empty", "nonempty"}

\* NodeConfig.defaults
NodeConfigDefaults ==
  [dapp |-> PathRelative(OutPath, DappPath), dataDir |-> PathRelative(OutPath, PathJoin(Cwd, ".data")),
   rest |-> "defaults"]
\* a config file written by an earlier run
ExistingConfigs ==
  {[dapp |-> PathRelative(OutPath, DappPath), dataDir |-> PathRelative(OutPath, d),
    rest |-> "existing"] : d \in DataPaths}
NoFile == [exists |-> FALSE]
Exists(file) == file # NoFile

InitCliVars ==
  /\ cliPc = "start"
  /\ argv = [reset |-> FALSE, data |-> ".data"]
  /\ files = [d \in DataPaths |-> "absent"]
  /\ outFile = NoFile
  /\ dappFile = "command"
  /\ config = NodeConfigDefaults
  /\ dataDir = PathJoin(Cwd, ".data")
  /\ cliLog = <<>>

\* the handler up to 'ensure data dir and config': paths and config
cliResolveConfig ==
  /\ cliPc = "start"
  /\ cliPc' = "ensure"
  /\ IF Exists(outFile)
     THEN /\ config' = outFile
          /\ dataDir' = PathResolve(OutPath, outFile.dataDir)
     ELSE /\ config' = [config EXCEPT !.dapp = PathRelative(OutPath, DappPath),
                                      !.dataDir = PathRelative(OutPath, PathJoin(Cwd, argv.data))]
          /\ dataDir' = PathJoin(Cwd, argv.data)
  /\ handler' = Handler("cliResolveConfig", NoPeer, -1, "")
  /\ UNCHANGED <<argv, files, outFile, dappFile, cliLog, calls>>
  /\ UNCHANGED nodeVars /\ UNCHANGED poolVars
  /\ UNCHANGED <<blockVars, legacyVars, serialVars, args, optionVars, executedListeners>>

\* the test of the data directory going on whatever argv.reset is
cliEnsureDataDirAlwaysReset ==
  /\ cliPc = "ensure"
  /\ cliPc' = "emptyDir"
  /\ handler' = Handler("cliEnsureDataDir", NoPeer, -1, "")
  /\ UNCHANGED <<argv, files, outFile, dappFile, config, dataDir, cliLog, calls>>
  /\ UNCHANGED nodeVars /\ UNCHANGED poolVars
  /\ UNCHANGED <<blockVars, legacyVars, serialVars, args, optionVars, executedListeners>>

\* the test of the data directory: existsSync, statSync().isDirectory(), readdirSync
cliEnsureDataDir ==
  /\ cliPc = "ensure"
  /\ cliPc' = IF files[dataDir] \in {"file", "nonempty"} /\ ~argv.reset
              THEN "returned" ELSE "emptyDir"
  /\ handler' = Handler("cliEnsureDataDir", NoPeer, -1, "")
  /\ UNCHANGED <<argv, files, outFile, dappFile, config, dataDir, cliLog, calls>>
  /\ UNCHANGED nodeVars /\ UNCHANGED poolVars
  /\ UNCHANGED <<blockVars, legacyVars, serialVars, args, optionVars, executedListeners>>

\* fs.emptyDirSync(dataDir): the directory is created or emptied; on a path
\* that holds a file it throws or replaces the file
emptyDirSync ==
  /\ cliPc = "emptyDir"
  /\ \/ /\ files' = [files EXCEPT ![dataDir] = "empty"]
        /\ cliPc' = "writeJson"
        /\ cliLog' = Append(cliLog, "emptyDirSync")
     \/ /\ files[dataDir] = "file"
        /\ cliPc' = "threw"
        /\ UNCHANGED <<files, cliLog>>
  /\ handler' = Handler("emptyDirSync", NoPeer, -1, "")
  /\ UNCHANGED <<argv, outFile, dappFile, config, dataDir, calls>>
  /\ UNCHANGED nodeVars /\ UNCHANGED poolVars
  /\ UNCHANGED <<blockVars, legacyVars, serialVars, args, optionVars, executedListeners>>

\* fs.writeJsonSync(outPath, config, { spaces: 2 })
writeJsonSync ==
  /\ cliPc = "writeJson"
  /\ cliPc' = "readJson"
  /\ outFile' = config
  /\ cliLog' = Append(cliLog, "writeJsonSync")
  /\ handler' = Handler("writeJsonSync", NoPeer, -1, "")
  /\ UNCHANGED <<argv, files, dappFile, config, dataDir, calls>>
  /\ UNCHANGED nodeVars /\ UNCHANGED poolVars
  /\ UNCHANGED <<blockVars, legacyVars, serialVars, args, optionVars, executedListeners>>

\* DappConfig.validate(fs.readJsonSync(dappPath)) and the test of initAppCommand
readJsonSync ==
  /\ cliPc = "readJson"
  /\ cliPc' = IF dappFile = "missing" THEN "threw"
              ELSE IF dappFile = "command" THEN "exec" ELSE "done"
  /\ cliLog' = Append(cliLog, "readJsonSync")
  /\ handler' = Handler("readJsonSync", NoPeer, -1, "")
  /\ UNCHANGED <<argv, files, outFile, dappFile, config, dataDir, calls>>
  /\ UNCHANGED nodeVars /\ UNCHANGED poolVars
  /\ UNCHANGED <<blockVars, legacyVars, serialVars, args, optionVars, executedListeners>>

\* execSync(dappConfig.initAppCommand, { cwd: dappCwd })
execSync ==
  /\ cliPc = "exec"
  /\ cliPc' = "done"
  /\ cliLog' = Append(cliLog, "execSync")
  /\ handler' = Handler("execSync", NoPeer, -1, "")
  /\ calls' = <<Call("child_process", "execSync", NoPeer, -1, "initAppCommand")>>
  /\ UNCHANGED <<argv, files, outFile, dappFile, config, dataDir>>
  /\ UNCHANGED nodeVars /\ UNCHANGED poolVars
  /\ UNCHANGED <<blockVars, legacyVars, serialVars, args, optionVars, executedListeners>>

\* ---------------------------------------------------------------- the node
InitPoolVars ==
  /\ pool = {} /\ updates = {} /\ executed = {} /\ executedHeight = 0 /\ selected = {}

InitBlockVars == block = NoBlock /\ result = "none"

InitLegacyVars == legacy = NoLegacyBlock /\ legacyResult = "none"

InitSerialVars == bytes = <<>> /\ decoded = NoBlock

\* the module constants TimeoutOptions.defaults and NodeNetworkOptions.defaults,
\* and no ConsensusTimeout or Node constructed from them yet
InitOptionVars ==
  /\ timeoutDefaults = TimeoutOptionsDefaults
  /\ timeoutSupplied = EmptyObject
  /\ timeoutOptions = TimeoutOptionsDefaults
  /\ timeout = NoTimeout
  /\ networkDefaults = NodeNetworkOptionsDefaults
  /\ networkSupplied = EmptyObject
  /\ networkOptions = NodeNetworkOptionsDefaults

InitRestVars ==
  /\ InitLegacyVars /\ InitSerialVars /\ InitOptionVars
  /\ args = NoArgs
  /\ executedListeners = {}
  /\ InitCliVars

Init ==
  /\ nodePc = "new"
  /\ log = <<>>
  /\ listeners = {}
  /\ proto = [p \in Peers |-> "none"]
  /\ hs = [p \in Peers |-> "idle"]
  /\ remoteNode = <<>>
  /\ onEnd = [p \in Peers |-> FALSE]
  /\ dropped = {}
  /\ handler = NoHandler
  /\ calls = <<>>
  /\ adds = {}
  /\ InitPoolVars
  /\ InitBlockVars
  /\ InitRestVars

Lifecycle ==
  \/ start \/ blockchainReady \/ executorInitialized \/ consensusEngineStarted
  \/ networkStarted \/ stop \/ networkStopped \/ consensusEngineStopped

HandshakeStep ==
  \E p \in Peers :
    \/ handshake(p) \/ handshakeSendHello(p) \/ handshakeSetTimeout(p)
    \/ handshakeRejected(p) \/ handshakeTimeout(p)

RegistrationStep ==
  \E p \in Peers :
    \/ \E h \in Heights, g \in GenesisHashes : hello(p, h, g)
    \/ protocolEnd(p) \/ dropRemoteNode(p)

\* start, handshakes, registration and removal of peers, stop
Next == Lifecycle \/ HandshakeStep \/ RegistrationStep

Spec == Init /\ [][Next]_vars

\* ---------------------------------------------------------------- the running node
\* what start() has called once it returned
StartLog == <<"blockchain.ready", "executor.initialize", "executor.start",
              "synchronizer.start", "consensusEngine.start", "network.start">>

\* the states of one peer of a running node: not connected; handshaking, no
\* Hello yet; registered by a Hello with height h; removed by dropRemoteNode
\* while its connection is still open
PeerStates ==
  {[proto |-> "none", hs |-> "idle", registered |-> FALSE, height |-> 0, onEnd |-> FALSE, dropped |-> FALSE],
   [proto |-> "open", hs |-> "armed", registered |-> FALSE, height |-> 0, onEnd |-> FALSE, dropped |-> FALSE],
   [proto |-> "open", hs |-> "fired", registered |-> FALSE, height |-> 0, onEnd |-> TRUE, dropped |-> TRUE]}
  \cup {[proto |-> "open", hs |-> "fired", registered |-> TRUE, height |-> h, onEnd |-> TRUE, dropped |-> FALSE] :
          h \in Heights}

InitRunning ==
  /\ nodePc = "running"
  /\ log = StartLog
  /\ listeners = {}
  /\ \E st \in [Peers -> PeerStates] :
       /\ proto = [p \in Peers |-> st[p].proto]
       /\ hs = [p \in Peers |-> st[p].hs]
       /\ remoteNode = [p \in {q \in Peers : st[q].registered} |-> st[p].height]
       /\ onEnd = [p \in Peers |-> st[p].onEnd]
       /\ dropped = {p \in Peers : st[p].dropped}
  /\ handler = NoHandler
  /\ calls = <<>>
  /\ adds = {}
  /\ InitPoolVars
  /\ InitBlockVars
  /\ InitRestVars

MessageStep ==
  \E p \in Peers :
    \/ \E tx \in Txs : newTransaction(p, tx)
    \/ newBlock(p)
    \/ \E h \in Heights : newBlockHeight(p, h)
    \/ newConsensusMessage(p)
    \/ getConsentedHeader(p) \/ getHeaders(p) \/ getBodies(p)

ErrorStep ==
  \E m \in ErrorMessages :
    \/ synchronizerError(m) \/ consensusEngineError(m)
    \/ networkError(m) \/ executorError(m)
    \/ \E p \in Peers : protocolError(p, m)

AddStep ==
  \E tx \in Txs, from \in {"newTransaction", "sendTransaction"}, p \in Peers \cup {NoPeer} :
    \/ transactionPoolAdded(tx, from, p)
    \/ \E m \in ErrorMessages : transactionPoolAddRejected(tx, from, p, m)

\* the running node: peer messages, errors of the components, stop
NextMessages ==
  \/ \E l \in Listeners : onError(l)
  \/ MessageStep
  \/ ErrorStep
  \/ AddStep
  \/ stop \/ networkStopped \/ consensusEngineStopped

SpecMessages == InitRunning /\ [][NextMessages]_vars

PoolStep ==
  \/ \E tx \in Txs : sendTransaction(tx)
  \/ \E txs \in SUBSET Txs : onExecuted(txs)
  \/ \E txs \in SUBSET Txs, evicted \in SUBSET Txs : transactionPoolUpdated(txs, evicted)
  \/ \E txs \in SUBSET Txs, removed \in BOOLEAN, m \in ErrorMessages :
       transactionPoolUpdateRejected(txs, removed, m)
  \/ \E sel \in SUBSET Txs : selectTransactions(sel)

\* the running node: transactions, the executor's reports and the pool
NextPool ==
  \/ \E l \in Listeners : onError(l)
  \/ \E p \in Peers, tx \in Txs : newTransaction(p, tx)
  \/ AddStep
  \/ PoolStep

SpecPool == InitRunning /\ [][NextPool]_vars

\* ---------------------------------------------------------------- block validation
InitBlock ==
  /\ nodePc = "new"
  /\ log = <<>>
  /\ listeners = {}
  /\ proto = [p \in Peers |-> "none"]
  /\ hs = [p \in Peers |-> "idle"]
  /\ remoteNode = <<>>
  /\ onEnd = [p \in Peers |-> FALSE]
  /\ dropped = {}
  /\ handler = NoHandler
  /\ calls = <<>>
  /\ adds = {}
  /\ InitPoolVars
  /\ block \in Blocks
  /\ result = "none"
  /\ InitRestVars

NextBlock == validate

SpecBlock == InitBlock /\ [][NextBlock]_vars

\* ---------------------------------------------------------------- the other specifications
\* a node that was constructed and not started
InitIdle ==
  /\ nodePc = "new"
  /\ log = <<>>
  /\ listeners = {}
  /\ proto = [p \in Peers |-> "none"]
  /\ hs = [p \in Peers |-> "idle"]
  /\ remoteNode = <<>>
  /\ onEnd = [p \in Peers |-> FALSE]
  /\ dropped = {}
  /\ handler = NoHandler
  /\ calls = <<>>
  /\ adds = {}
  /\ InitPoolVars

\* validation of blocks whose body carries nextValidatorSet
InitLegacyBlock ==
  /\ InitIdle /\ InitBlockVars /\ InitSerialVars /\ InitOptionVars
  /\ legacy \in LegacyBlocks
  /\ legacyResult = "none"
  /\ args = NoArgs
  /\ executedListeners = {}
  /\ InitCliVars

NextLegacyBlock == legacyValidate

SpecLegacyBlock == InitLegacyBlock /\ [][NextLegacyBlock]_vars

\* blocks written to bytes and read back
InitSerialize ==
  /\ InitIdle /\ InitLegacyVars /\ InitSerialVars /\ InitOptionVars
  /\ block \in SerialBlocks
  /\ result = "none"
  /\ args = NoArgs
  /\ executedListeners = {}
  /\ InitCliVars

NextSerialize == serialize \/ deserialize \/ serializeHeader \/ deserializeHeader

SpecSerialize == InitSerialize /\ [][NextSerialize]_vars

\* blocks made by Block.construct, then validated
InitConstruct ==
  /\ InitIdle /\ InitBlockVars /\ InitLegacyVars /\ InitSerialVars /\ InitOptionVars
  /\ args \in ConstructArgs
  /\ executedListeners = {}
  /\ InitCliVars

NextConstruct == construct \/ validate \/ legacyConstruct \/ legacyValidate

SpecConstruct == InitConstruct /\ [][NextConstruct]_vars

\* nothing constructed from the defaults records yet
InitOptions == InitIdle /\ InitBlockVars /\ InitRestVars

\* option records merged by the constructors
NextOptions ==
  \/ \E options \in PartialTimeoutOptions : newConsensusTimeout(options)
  \/ newNode(EmptyObject)
  \/ \E network \in PartialNetworkOptions : newNode([network |-> network])

SpecOptions == InitOptions /\ [][NextOptions]_vars

\* a ConsensusTimeout constructed from partial options, and the timeouts it computes
NextTimeout ==
  \/ \E options \in PartialTimeoutOptions : newConsensusTimeout(options)
  \/ \E round \in TimeoutRounds : propose(round) \/ prevote(round) \/ precommit(round)

SpecTimeout == InitOptions /\ [][NextTimeout]_vars

\* the running node: the executor's reports and the listeners of the node
NextExecuted ==
  \/ \E l \in Listeners : onError(l) \/ nodeOnExecuted(l)
  \/ \E txs \in SUBSET Txs : onExecuted(txs)
  \/ \E txs \in SUBSET Txs, evicted \in SUBSET Txs : transactionPoolUpdated(txs, evicted)
  \/ \E txs \in SUBSET Txs, removed \in BOOLEAN, m \in ErrorMessages :
       transactionPoolUpdateRejected(txs, removed, m)

SpecExecuted == InitRunning /\ [][NextExecuted]_vars

\* the init command run once on any file system and any options
InitCli ==
  /\ InitIdle /\ InitBlockVars /\ InitLegacyVars /\ InitSerialVars /\ InitOptionVars
  /\ args = NoArgs
  /\ executedListeners = {}
  /\ cliPc = "start"
  /\ argv \in [reset : BOOLEAN, data : DataNames]
  /\ files \in [DataPaths -> FileStates]
  /\ outFile \in {NoFile} \cup ExistingConfigs
  /\ dappFile \in {"missing", "no command", "command"}
  /\ config = NodeConfigDefaults
  /\ dataDir = PathJoin(Cwd, ".data")
  /\ cliLog = <<>>

NextCli ==
  \/ cliResolveConfig \/ cliEnsureDataDir \/ emptyDirSync
  \/ writeJsonSync \/ readJsonSync \/ execSync

SpecCli == InitCli /\ [][NextCli]_vars

\* ================================================================ properties
Range(q) == {q[i] : i \in 1..Len(q)}
CallsTo(to, op) == {i \in 1..Len(calls) : calls[i].to = to /\ calls[i].op = op}
Emitted == {c \in Range(calls) : c.to = "listener"}

\* C1: a Hello whose genesis hash differs from the local one drops the peer and
\* leaves the remote-node set with the members it had before.
C1_ForeignHelloNotRegistered ==
  [][(handler'.name = "hello" /\ handler'.msg # LocalGenesis)
       => /\ remoteNode' = remoteNode
          /\ calls' = dropPeer(handler'.peer)
          /\ handler'.peer \in dropped']_vars

C1_Witness ==
  /\ handler.name = "hello" /\ handler.msg # LocalGenesis
  /\ handler.peer \in dropped
  /\ handler.peer \notin DOMAIN remoteNode
  /\ DOMAIN remoteNode # {}

\* C2: a Hello with the local genesis hash registers the sender in the
\* remote-node set with the height of that Hello, and the synchronizer's
\* newNode is called exactly once by that handler.
C2_MatchingHelloRegisters ==
  (handler.name = "hello" /\ handler.msg = LocalGenesis)
    => /\ RemoteNodeSetHas(remoteNode, handler.peer)
       /\ remoteNode[handler.peer] = handler.n
       /\ Cardinality(CallsTo("remoteNode", "add")) = 1
       /\ Cardinality(CallsTo("synchronizer", "newNode")) = 1

C2_Witness ==
  /\ handler.name = "hello" /\ handler.msg = LocalGenesis
  /\ handler.n = MaxHeight
  /\ RemoteNodeSetHas(remoteNode, handler.peer)
  /\ remoteNode[handler.peer] = MaxHeight

\* C3: every peer whose handshake was started and that was never registered is
\* dropped once its handshake is over, and the timer does not drop a peer that
\* is in the remote-node set when it fires.
C3_HandshakeTimeoutDrops ==
  /\ \A p \in Peers :
       (hs[p] \in {"fired", "rejected"} /\ ~onEnd[p] /\ ~RemoteNodeSetHas(remoteNode, p))
         => p \in dropped
  /\ (handler.name = "handshakeTimeout" /\ RemoteNodeSetHas(remoteNode, handler.peer))
       => calls = <<>>

\* what stop() has called so far
StopLog == IF Len(log) <= Len(StartLog) THEN <<>> ELSE SubSeq(log, Len(StartLog) + 1, Len(log))

\* C4 as stated: stop() ends the protocols, stops the engine, the synchronizer
\* and the executor, then closes the store.
C4_StopClosesStore ==
  nodePc = "stopped"
    => StopLog \in {<<"protocol.end", "consensusEngine.stop", "synchronizer.stop",
                      "executor.stop", "blockchain.close">>,
                    <<"consensusEngine.stop", "synchronizer.stop",
                      "executor.stop", "blockchain.close">>}

\* C4 as amended: stop() calls protocol.end() of every registered peer, then
\* stops the network, then the consensus engine, then the synchronizer, then
\* the executor, each awaited call resolved before the next is made; the store
\* is not closed.
C4_StopOrder ==
  LET ends == IF "protocol.end" \in Range(StopLog) THEN <<"protocol.end">> ELSE <<>>
  IN /\ nodePc \in {"new", "ready_wait", "initialize_wait", "engine_wait",
                    "network_wait", "running"} => StopLog = <<>>
     /\ nodePc = "stop_network_wait" => StopLog = ends \o <<"network.stop">>
     /\ nodePc = "stop_engine_wait"
          => StopLog = ends \o <<"network.stop", "consensusEngine.stop">>
     /\ nodePc = "stopped"
          => StopLog = ends \o <<"network.stop", "consensusEngine.stop",
                                 "synchronizer.stop", "executor.stop">>
     /\ (handler.name = "stop" /\ nodePc = "stop_network_wait")
          => /\ \A p \in DOMAIN remoteNode : Call("protocol", "end", p, -1, "") \in Range(calls)
             /\ (ends # <<>>) = (DOMAIN remoteNode # {})
     /\ "blockchain.close" \notin Range(log)

C4_Witness ==
  /\ nodePc = "stopped"
  /\ StopLog = <<"protocol.end", "network.stop", "consensusEngine.stop",
                 "synchronizer.stop", "executor.stop">>

\* C5 as stated: no transaction the executor reported executed is in the pool,
\* in particular when the engine reads the pool for the next height.
C5_PoolEviction ==
  /\ \A tx \in executed : tx \notin pool
  /\ handler.name = "selectTransactions" => selected \cap executed = {}

ErrorHandlers ==
  {"executorError", "synchronizerError", "consensusEngineError", "networkError",
   "protocolError", "transactionPoolAddRejected", "transactionPoolUpdateRejected"}
Stopping == {"stop_network_wait", "stop_engine_wait", "stopped"}

\* C6 as stated: a fatal error delivered on the error stream has stop() invoked.
C6_FatalErrorStops ==
  (handler.name \in ErrorHandlers /\ handler.msg = "fault" /\ Emitted # {})
    => nodePc \in Stopping

\* C7 as stated: every error of the executor, the synchronizer, the consensus
\* engine, the network, a peer protocol or a pool add/update the node started,
\* other than 'underlying socket has been closed', reaches every listener of
\* onError.
C7_SingleErrorStream ==
  (handler.name \in ErrorHandlers /\ handler.msg # SocketClosed)
    => \A l \in listeners : Call("listener", "error", l, -1, handler.msg) \in Range(calls)

\* C8 as stated: on 'underlying socket has been closed' of a peer's protocol the
\* peer is dropped and removed from the remote-node set, nothing is emitted.
C8_TransientErrorDropsPeer ==
  (handler.name = "protocolError" /\ handler.msg = SocketClosed)
    => /\ handler.peer \in dropped
       /\ ~RemoteNodeSetHas(remoteNode, handler.peer)
       /\ Emitted = {}

\* C8 as amended: on 'underlying socket has been closed' of a peer's protocol or
\* of the network the node does nothing: no listener is called, no peer is
\* dropped and the remote-node set keeps its members.
C8_TransientErrorIgnored ==
  [][(handler'.name \in {"protocolError", "networkError"} /\ handler'.msg = SocketClosed)
       => /\ calls' = <<>>
          /\ remoteNode' = remoteNode
          /\ dropped' = dropped]_vars

C8_Witness ==
  /\ handler.name = "protocolError" /\ handler.msg = SocketClosed
  /\ RemoteNodeSetHas(remoteNode, handler.peer)
  /\ handler.peer \notin dropped
  /\ listeners # {}
  /\ calls = <<>>

\* the component and the method each peer message is meant for
Route ==
  [newTransaction |-> <<"transactionPool", "add">>,
   newBlock |-> <<"synchronizer", "newBlock">>,
   newBlockHeight |-> <<"synchronizer", "newBlockHeight">>,
   newConsensusMessage |-> <<"consensusEngine", "newConsensusMessage">>,
   getConsentedHeader |-> <<"responder", "getConsentedHeader">>,
   getHeaders |-> <<"responder", "getHeaders">>,
   getBodies |-> <<"responder", "getBodies">>]
Components == {"transactionPool", "synchronizer", "consensusEngine", "responder"}
Routed == {i \in 1..Len(calls) : calls[i].to \in Components}

\* C9 as stated: every peer message reaches exactly one component, its own.
C9_RoutedToExactlyOne ==
  handler.name \in DOMAIN Route
    => /\ Cardinality(Routed) = 1
       /\ \A i \in Routed : <<calls[i].to, calls[i].op>> = Route[handler.name]

\* C9 as amended: every peer message reaches no component but its own, and
\* reaches it exactly once, except that a NewBlock, NewBlockHeight or
\* NewConsensusMessage of a peer that is not in the remote-node set reaches no
\* component: the handler throws 'Remote node disappeared'.
C9_RoutedToItsOwn ==
  handler.name \in DOMAIN Route
    => LET unknown == /\ handler.name \in {"newBlock", "newBlockHeight", "newConsensusMessage"}
                      /\ ~RemoteNodeSetHas(remoteNode, handler.peer)
       IN /\ \A i \in Routed : <<calls[i].to, calls[i].op>> = Route[handler.name]
          /\ Cardinality(Routed) = IF unknown THEN 0 ELSE 1
          /\ unknown => calls = <<Call("throw", "Error", handler.peer, -1, RemoteNodeDisappeared)>>

C9_Witness ==
  /\ handler.name = "newBlock"
  /\ RemoteNodeSetHas(remoteNode, handler.peer)
  /\ calls = <<Call("synchronizer", "newBlock", handler.peer, -1, "")>>

\* C10: Block.validate() throws when header.transactionRoot differs from the
\* hash of body.transactionList or header.lastBlockConsensusRoot from the hash
\* of body.lastBlockConsensus, and does not throw when both are equal.
C10_ValidateChecksRoots ==
  result # "none"
    => ((result # "ok") <=>
          \/ block.header.transactionRoot # Hash(block.body.transactionList)
          \/ block.header.lastBlockConsensusRoot # Hash(block.body.lastBlockConsensus))

C10_Witness ==
  /\ result = "invalid lastBlockConsensusHash"
  /\ block.header.transactionRoot = Hash(block.body.transactionList)
  /\ block.header.lastBlockConsensusRoot # Hash(block.body.lastBlockConsensus)

HeaderLength == 2 * UInt64Width + 5 * HashWidth
IntegerAt(bs, offset) == UIntValue(SubSeq(bs, offset + 1, offset + UInt64Width))
HashAt(bs, offset) == bs[offset + 1].hash
HeaderLayout(bs, h) ==
  /\ Len(bs) >= HeaderLength
  /\ IntegerAt(bs, 0) = h.height
  /\ IntegerAt(bs, UInt64Width) = h.timestamp
  /\ HashAt(bs, 2 * UInt64Width) = h.lastBlockHash
  /\ HashAt(bs, 2 * UInt64Width + HashWidth) = h.transactionRoot
  /\ HashAt(bs, 2 * UInt64Width + 2 * HashWidth) = h.lastBlockConsensusRoot
  /\ HashAt(bs, 2 * UInt64Width + 3 * HashWidth) = h.nextValidatorSetRoot
  /\ HashAt(bs, 2 * UInt64Width + 4 * HashWidth) = h.appStateHash

\* C12: what deserialize reads from the bytes serialize wrote has every field
\* and the hash of the value written, for a Block and for a BlockHeader, and
\* reads all the bytes; the bytes of a header are its seven fields height,
\* timestamp, lastBlockHash, transactionRoot, lastBlockConsensusRoot,
\* nextValidatorSetRoot, appStateHash in that order.
C12_RoundTrip ==
  /\ handler.name = "deserialize"
       => /\ decoded = block
          /\ decoded.hash = block.hash
          /\ decoded.header.hash = block.header.hash
          /\ handler.n = Len(bytes)
  /\ handler.name = "deserializeHeader"
       => /\ decoded = block.header
          /\ decoded.hash = block.header.hash
          /\ handler.n = Len(bytes)
  /\ handler.name \in {"serialize", "deserialize"}
       => HeaderLayout(bytes, block.header) /\ Len(bytes) > HeaderLength
  /\ handler.name \in {"serializeHeader", "deserializeHeader"}
       => HeaderLayout(bytes, block.header) /\ Len(bytes) = HeaderLength

C12_Witness ==
  /\ handler.name = "deserialize"
  /\ block.header.height # block.header.timestamp
  /\ block.header.timestamp >= ByteBase
  /\ Len(block.body.transactionList) = NumTxs

\* 1.2^r as the fraction 12^r / 10^r
RECURSIVE IntPow(_, _)
IntPow(b, e) == IF e = 0 THEN 1 ELSE b * IntPow(b, e - 1)
Scaled(base, r) == Rat(base * IntPow(12, r), IntPow(10, r))
DefaultsInUse == DOMAIN timeoutSupplied = {}

Merged(defaults, supplied, k) == IF k \in DOMAIN supplied THEN supplied[k] ELSE defaults[k]

\* C14: the options of a ConsensusTimeout have, field by field, the supplied
\* value where one was supplied and the default otherwise; so have the node's
\* network options, handshakeTimeout being 1000 unless supplied; the two
\* defaults records stay as they were defined.
C14_FieldWiseMerge ==
  /\ timeoutDefaults = TimeoutOptionsDefaults
  /\ networkDefaults = NodeNetworkOptionsDefaults
  /\ DOMAIN timeoutOptions = TimeoutFields
  /\ \A k \in TimeoutFields :
       timeoutOptions[k] = Merged(TimeoutOptionsDefaults, timeoutSupplied, k)
  /\ DOMAIN networkOptions = NetworkFields
  /\ \A k \in NetworkFields :
       networkOptions[k] = Merged(NodeNetworkOptionsDefaults, networkSupplied, k)
  /\ "handshakeTimeout" \notin DOMAIN networkSupplied => networkOptions.handshakeTimeout = 1000

C14_Witness ==
  /\ DOMAIN timeoutSupplied = {"prevoteTimeout"}
  /\ timeoutOptions.prevoteTimeout # TimeoutOptionsDefaults.prevoteTimeout
  /\ DOMAIN networkSupplied = {"port"}
  /\ networkOptions.handshakeTimeout = 1000

\* the peers a handler sent NewTransaction to
GossipedTo(cs) == {c.peer : c \in {d \in Range(cs) : d.op = "sendNewTransaction"}}

\* C15: when the transaction of a NewTransaction message of peer P is inserted
\* into the pool it is gossiped to every registered peer except P.
C15_GossipExcludesSender ==
  [][(/\ handler'.name = "transactionPoolAdded"
      /\ handler'.msg = "newTransaction"
      /\ handler'.n \notin pool)
       => GossipedTo(calls') = RemoteNodeSetNodes(remoteNode) \ {handler'.peer}]_vars

\* C16: the block Block.construct returns has both roots equal to the hashes of
\* its body's parts, the given height, timestamp, lastBlockHash,
\* next-validator-set root and appStateHash in its header, the given parts in
\* its body, and the hash of its header; validate() on it does not throw.
C16_ConstructedBlockIsValid ==
  [][/\ handler'.name = "construct"
          => /\ block'.header.transactionRoot = Hash(block'.body.transactionList)
             /\ block'.header.lastBlockConsensusRoot = Hash(block'.body.lastBlockConsensus)
             /\ block'.header.height = args.height
             /\ block'.header.timestamp = args.timestamp
             /\ block'.header.lastBlockHash = args.lastBlockHash
             /\ block'.header.nextValidatorSetRoot = Hash(args.nextValidatorSet)
             /\ block'.header.appStateHash = args.appStateHash
             /\ block'.body.transactionList = args.transactions
             /\ block'.body.lastBlockConsensus = args.lastBlockConsensus
             /\ block'.hash = block'.header.hash
             /\ BlockValidate(block') = "ok"
     /\ (handler.name = "construct" /\ handler'.name = "validate") => result' = "ok"
     /\ handler'.name = "legacyConstruct"
          => /\ legacy'.header.transactionRoot = Hash(args.transactions)
             /\ legacy'.header.lastBlockConsensusRoot = Hash(args.lastBlockConsensus)
             /\ legacy'.header.nextValidatorSetRoot = Hash(args.nextValidatorSet)
             /\ legacy'.hash = legacy'.header.hash
             /\ LegacyBlockValidate(legacy') = "ok"
     /\ (handler.name = "legacyConstruct" /\ handler'.name = "legacyValidate")
          => legacyResult' = "ok"]_vars

C16_Witness ==
  /\ handler.name = "validate"
  /\ result = "ok"
  /\ Len(block.body.transactionList) = NumTxs
  /\ block.header.transactionRoot = Hash(args.transactions)

\* handlers that run for a peer
PeerHandlers ==
  {"handshake", "handshakeRejected", "handshakeTimeout", "hello", "protocolEnd",
   "newTransaction", "newBlock", "newBlockHeight", "newConsensusMessage",
   "getConsentedHeader", "getHeaders", "getBodies", "protocolError"}
\* the calls of start() made so far are the first calls of StartLog
StartedInOrder ==
  /\ Len(log) >= 1 => SubSeq(log, 1, 1) = SubSeq(StartLog, 1, 1)
  /\ \A i \in 1..Len(StartLog) : Len(log) >= i => log[i] = StartLog[i]
\* consensusEngine.start() has resolved: start() is past its third await
EngineStarted == nodePc \notin {"new", "ready_wait", "initialize_wait", "engine_wait"}

\* C17: start() calls blockchain.ready(), executor.initialize(),
\* executor.start(), synchronizer.start(), consensusEngine.start(),
\* network.start() in that order, each awaited step resolving before the next
\* call; no handshake or message of a peer is handled before the store is ready,
\* the executor initialized and the consensus engine started.
C17_StartOrder ==
  /\ StartedInOrder
  /\ nodePc = "new" => log = <<>>
  /\ nodePc = "ready_wait" => log = SubSeq(StartLog, 1, 1)
  /\ nodePc = "initialize_wait" => log = SubSeq(StartLog, 1, 2)
  /\ nodePc = "engine_wait" => log = SubSeq(StartLog, 1, 5)
  /\ nodePc \in {"network_wait", "running"} => log = StartLog
  /\ \A p \in Peers :
       (proto[p] # "none" \/ hs[p] # "idle" \/ RemoteNodeSetHas(remoteNode, p))
         => EngineStarted /\ SubSeq(log, 1, Len(StartLog)) = StartLog
  /\ handler.name \in PeerHandlers
       => EngineStarted /\ SubSeq(log, 1, Len(StartLog)) = StartLog

C17_Witness ==
  /\ nodePc = "running"
  /\ handler.name = "hello"
  /\ RemoteNodeSetHas(remoteNode, handler.peer)

\* C18: NewBlock, NewBlockHeight and NewConsensusMessage reach the synchronizer
\* or the consensus engine only when their sender is in the remote-node set as
\* they are handled; otherwise the handler throws 'Remote node disappeared' and
\* calls no component.  NewTransaction reaches the pool either way.
C18_OnlyRegisteredPeersReachComponents ==
  [][/\ handler'.name \in {"newBlock", "newBlockHeight", "newConsensusMessage"}
          => IF RemoteNodeSetHas(remoteNode, handler'.peer)
             THEN /\ Len(calls') = 1
                  /\ calls'[1].to \in {"synchronizer", "consensusEngine"}
                  /\ calls'[1].peer = handler'.peer
             ELSE calls' = <<Call("throw", "Error", handler'.peer, -1, RemoteNodeDisappeared)>>
     /\ handler'.name = "newTransaction"
          => calls' = <<Call("transactionPool", "add", NoPeer, handler'.n, "")>>]_vars

C18_Witness ==
  /\ handler.name = "newConsensusMessage"
  /\ ~RemoteNodeSetHas(remoteNode, handler.peer)
  /\ calls = <<Call("throw", "Error", handler.peer, -1, RemoteNodeDisappeared)>>

\* C19: every member of the remote-node set sent a Hello with the local genesis
\* hash and its protocol's end event has not been handled; the end of a
\* registered peer's protocol removes it, dropRemoteNode removes it and drops it
\* at the network, and a peer enters the set only by a Hello with the local
\* genesis hash.
C19_RemoteNodeSetMembers ==
  [][/\ \A p \in RemoteNodeSetNodes(remoteNode') :
          onEnd'[p] /\ proto'[p] \in {"open", "ending"}
     /\ handler'.name = "protocolEnd" => ~RemoteNodeSetHas(remoteNode', handler'.peer)
     /\ handler'.name = "dropRemoteNode"
          => /\ ~RemoteNodeSetHas(remoteNode', handler'.peer)
             /\ handler'.peer \in dropped'
             /\ \E i \in 1..Len(calls') : calls'[i] = dropPeer(handler'.peer)[1]
     /\ \A p \in Peers :
          (~RemoteNodeSetHas(remoteNode, p) /\ RemoteNodeSetHas(remoteNode', p))
            => handler' = Handler("hello", p, remoteNode'[p], LocalGenesis)]_vars

C19_Witness ==
  /\ handler.name = "protocolEnd"
  /\ calls = <<Call("remoteNode", "delete", handler.peer, -1, "")>>
  /\ handler.peer \in dropped

\* C20: every listener registered with Node.onExecuted is called with the
\* height each time the executor reports a block executed.
C20_ExecutedListenersInvoked ==
  [][handler'.name = "onExecuted"
       => \A l \in executedListeners :
            Call("listener", "executed", l, handler'.n, "") \in Range(calls')]_vars

\* C21: once stop() has completed the node makes no call to the network or to
\* a peer's protocol, in particular no dropPeer from a handshake timer armed
\* before stop(), and the remote-node set is empty.
C21_QuietAfterStop ==
  [][nodePc' = "stopped"
       => /\ RemoteNodeSetNodes(remoteNode') = {}
          /\ nodePc = "stopped"
               => \A i \in 1..Len(calls') : calls'[i].to \notin {"network", "protocol"}]_vars

\* the data directory the command works on: the one of an existing config
\* file, else the one of the options
EffectiveDataDir ==
  IF Exists(outFile) THEN PathResolve(OutPath, outFile.dataDir) ELSE PathJoin(Cwd, argv.data)
Position(q, x) == CHOOSE i \in 1..Len(q) : q[i] = x

\* C22: without --reset, when the data directory exists and is a non-empty
\* directory or not a directory, no step of init changes a data path or the
\* config file or runs initAppCommand, and the handler returns; in every other
\* case the handler goes on, and the data directory is empty and the config
\* file written before the dapp config is read and before initAppCommand runs.
C22_InitKeepsDataWithoutReset ==
  [][/\ (~argv.reset /\ files[EffectiveDataDir] \in {"file", "nonempty"})
          => /\ files' = files /\ outFile' = outFile
             /\ cliLog' = <<>> /\ calls' = <<>>
             /\ cliPc' \in {"ensure", "returned"}
             /\ handler'.name = "cliEnsureDataDir" => cliPc' = "returned"
     /\ ~argv.reset
          => \A d \in DataPaths : files[d] \in {"file", "nonempty"} => files'[d] = files[d]
     /\ (handler'.name = "cliEnsureDataDir"
           /\ ~(~argv.reset /\ files[EffectiveDataDir] \in {"file", "nonempty"}))
          => cliPc' = "emptyDir" /\ dataDir = EffectiveDataDir
     /\ handler'.name \in {"readJsonSync", "execSync"}
          => /\ files[dataDir] = "empty"
             /\ outFile = config
             /\ "emptyDirSync" \in Range(cliLog) /\ "writeJsonSync" \in Range(cliLog)
             /\ Position(cliLog, "emptyDirSync") < Position(cliLog, "writeJsonSync")
             /\ Position(cliLog, "writeJsonSync") < Position(cliLog', "readJsonSync")
     /\ handler'.name = "execSync"
          => Position(cliLog', "readJsonSync") < Position(cliLog', "execSync")]_vars

C22_Witness ==
  /\ cliPc = "returned"
  /\ ~argv.reset
  /\ files[dataDir] = "nonempty"
  /\ Exists(outFile)
  /\ dataDir # PathJoin(Cwd, argv.data)

====
